---- MODULE Spec2Model ----
(***************************************************************************)
(* Game of Life on a wrapping grid, rendered in a terminal: the App state  *)
(* of src/src/main.rs, its rule engine (count_number_of_neighbour,         *)
(* update_game_table), its key handlers and the run loop                   *)
(* {maybe-update, draw, handle_events}.                                    *)
(*                                                                         *)
(* Time is the quantity the loop reads: Instant::now() - last_update, in   *)
(* nanoseconds (the resolution of Duration), saturated at one second,      *)
(* which is the largest threshold a rate >= 1 gives.                       *)
(***************************************************************************)
EXTENDS Integers, FiniteSets, Sequences, TLC

VARIABLES
    game_table,              \* App.game_table: [row -> [col -> BOOLEAN]]
    game_table_size,         \* App.game_table_size: <<height, width>>
    update_per_second_max,   \* App.update_per_second_max: u16
    game_pause,              \* App.game_pause
    game_table_user_cursor,  \* App.game_table_user_cursor: <<row, col>>
    step_by_step_next,       \* App.step_by_step_next
    exit,                    \* App.exit
    pc,                      \* position in the body of run's while loop
    status,                  \* "running", "returned" (run returned Ok), "panicked",
                             \* "draw_error", "input_error" (run returned that Err)
    since_update,            \* Instant::now() - last_update at the last reading, ns
    since_advance,           \* history: ns since the most recent advance of either kind
    key_event,               \* history: the key handle_events read in the last iteration
    advances                 \* history: generation advances since the last draw

vars == <<game_table, game_table_size, update_per_second_max, game_pause,
          game_table_user_cursor, step_by_step_next, exit, pc, status,
          since_update, since_advance, key_event, advances>>

----------------------------------------------------------------------------
(* Bounds of the model *)

\* the loop specifications draw grids of at most this many cells
MaxCells == 4

\* the rule specification draws grids of at most this many cells
RuleMaxCells == 9

\* the bounded specifications stop pressing <d> at DEFAULT + MaxRateUp
MaxRateUp == 1

(* Program constants *)

DEFAULT_MAX_UPDATE_PER_SECOND == 10

\* update_per_second_max is a u16
U16Mod == 65536

\* nanoseconds in the one second of 1.0 / rate
NanosPerSec == 1000000000

----------------------------------------------------------------------------
(* Grids *)

Sizes(maxCells) ==
    {s \in (1..maxCells) \X (1..maxCells) : s[1] * s[2] <= maxCells}

initialize_empty_game_table(size) ==
    [x \in 0..(size[1] - 1) |-> [y \in 0..(size[2] - 1) |-> FALSE]]

\* every grid rand::rng().random() can fill
initialize_game_table(size) ==
    [0..(size[1] - 1) -> [0..(size[2] - 1) -> BOOLEAN]]

\* the (ix, iy) pairs of the two for loops, (0, 0) skipped
NeighbourOffsets ==
    {o \in (-1..1) \X (-1..1) : ~(o[1] = 0 /\ o[2] = 0)}

\* a % by zero panics; game_table[real_x][real_y] out of range panics
count_number_of_neighbour_panics(table, size, x, y) ==
    \/ size[1] = 0
    \/ size[2] = 0
    \/ \E o \in NeighbourOffsets :
          LET real_x == (x + o[1] + size[1]) % size[1]
              real_y == (y + o[2] + size[2]) % size[2]
          IN  \/ real_x \notin DOMAIN table
              \/ real_y \notin DOMAIN table[real_x]

\* as count_number_of_neighbour, the cells beyond an edge not counted
count_number_of_neighbour_no_wrap(table, size, x, y) ==
    Cardinality({o \in NeighbourOffsets :
        /\ x + o[1] \in DOMAIN table
        /\ y + o[2] \in DOMAIN table[x + o[1]]
        /\ table[x + o[1]][y + o[2]]})

count_number_of_neighbour(table, size, x, y) ==
    Cardinality({o \in NeighbourOffsets :
        LET real_x == (x + o[1] + size[1]) % size[1]
            real_y == (y + o[2] + size[2]) % size[2]
        IN  table[real_x][real_y]})

\* as new_cell_state, a live cell surviving with 3 neighbours only
new_cell_state_survive_three_only(neighbour, cell) == neighbour = 3

\* the match of update_game_table on (neighbour, *cell)
new_cell_state(neighbour, cell) ==
    \/ (neighbour \in {2, 3} /\ cell)
    \/ (neighbour = 3 /\ ~cell)

\* as update_game_table_panics, the modulus taken before the rows are walked
update_game_table_panics_before_rows(table, size) ==
    size[1] = 0 \/ size[2] = 0 \/ table # table

update_game_table_panics(table, size) ==
    \E x \in DOMAIN table : \E y \in DOMAIN table[x] :
        \/ count_number_of_neighbour_panics(table, size, x, y)
        \/ x \notin 0..(size[1] - 1)
        \/ y \notin 0..(size[2] - 1)

update_game_table(table, size) ==
    [x \in 0..(size[1] - 1) |-> [y \in 0..(size[2] - 1) |->
        IF x \in DOMAIN table /\ y \in DOMAIN table[x]
        THEN new_cell_state(count_number_of_neighbour(table, size, x, y), table[x][y])
        ELSE FALSE]]

----------------------------------------------------------------------------
(* Key handlers.  Each one gives the next value of every App field and of  *)
(* status; a panic leaves the fields as they are and ends the program.     *)

\* stands for usize::MAX, the value a wrapping 0 - 1 leaves: larger than every dimension
UsizeMax == 2147483647

panic ==
    /\ status' = "panicked"
    /\ UNCHANGED <<game_table, game_table_size, update_per_second_max, game_pause,
                   game_table_user_cursor, step_by_step_next, exit>>

\* an arithmetic overflow panics when the build checks overflow and wraps when it does not
OverflowChecks == BOOLEAN

exit_ ==
    /\ exit' = TRUE
    /\ UNCHANGED <<game_table, game_table_size, update_per_second_max, game_pause,
                   game_table_user_cursor, step_by_step_next, status>>

\* as toggle_game_pause, the key only pausing
toggle_game_pause_only_pauses ==
    /\ game_pause' = TRUE
    /\ UNCHANGED <<game_table, game_table_size, update_per_second_max,
                   game_table_user_cursor, step_by_step_next, exit, status>>

toggle_game_pause ==
    /\ game_pause' = ~game_pause
    /\ UNCHANGED <<game_table, game_table_size, update_per_second_max,
                   game_table_user_cursor, step_by_step_next, exit, status>>

\* the cursor after a handler sets one of its two fields
set_cursor(cursor) ==
    /\ game_table_user_cursor' = cursor
    /\ UNCHANGED <<game_table, game_table_size, update_per_second_max, game_pause,
                   step_by_step_next, exit, status>>

\* dimension - 1 on a usize: below zero it panics or wraps to usize::MAX
set_cursor_to_last(axis) ==
    IF game_table_size[axis] >= 1
    THEN set_cursor([game_table_user_cursor EXCEPT ![axis] = game_table_size[axis] - 1])
    ELSE \E checked \in OverflowChecks :
            IF checked THEN panic
            ELSE set_cursor([game_table_user_cursor EXCEPT ![axis] = UsizeMax])

game_table_user_cursor_move_left ==
    IF game_table_user_cursor[2] > 0
    THEN set_cursor([game_table_user_cursor EXCEPT ![2] = @ - 1])
    ELSE set_cursor_to_last(2)

\* as game_table_user_cursor_move_up, wrapping to the last column's index
game_table_user_cursor_move_up_other_axis ==
    IF game_table_user_cursor[1] > 0
    THEN set_cursor([game_table_user_cursor EXCEPT ![1] = @ - 1])
    ELSE set_cursor([game_table_user_cursor EXCEPT ![1] = game_table_size[2] - 1])

game_table_user_cursor_move_up ==
    IF game_table_user_cursor[1] > 0
    THEN set_cursor([game_table_user_cursor EXCEPT ![1] = @ - 1])
    ELSE set_cursor_to_last(1)

\* if cursor < dimension - 1 { cursor += 1 } else { cursor = 0 }
cursor_forward(axis) ==
    IF game_table_size[axis] >= 1
    THEN IF game_table_user_cursor[axis] < game_table_size[axis] - 1
         THEN set_cursor([game_table_user_cursor EXCEPT ![axis] = @ + 1])
         ELSE set_cursor([game_table_user_cursor EXCEPT ![axis] = 0])
    ELSE \E checked \in OverflowChecks :
            IF checked THEN panic
            ELSE IF game_table_user_cursor[axis] < UsizeMax
                 THEN set_cursor([game_table_user_cursor EXCEPT ![axis] = @ + 1])
                 ELSE set_cursor([game_table_user_cursor EXCEPT ![axis] = 0])

game_table_user_cursor_move_right == cursor_forward(2)

game_table_user_cursor_move_down == cursor_forward(1)

\* as switch_cell_state, without the test of game_pause
switch_cell_state_ungated ==
    LET x == game_table_user_cursor[1]
        y == game_table_user_cursor[2]
    IN  /\ game_table' = [game_table EXCEPT ![x][y] = ~game_table[x][y]]
        /\ UNCHANGED <<game_table_size, update_per_second_max, game_pause,
                       game_table_user_cursor, step_by_step_next, exit, status>>

switch_cell_state ==
    IF game_pause
    THEN LET x == game_table_user_cursor[1]
             y == game_table_user_cursor[2]
         IN  IF x \in DOMAIN game_table /\ y \in DOMAIN game_table[x]
             THEN /\ game_table' = [game_table EXCEPT ![x][y] = ~game_table[x][y]]
                  /\ UNCHANGED <<game_table_size, update_per_second_max, game_pause,
                                 game_table_user_cursor, step_by_step_next, exit, status>>
             ELSE panic
    ELSE UNCHANGED <<game_table, game_table_size, update_per_second_max, game_pause,
                     game_table_user_cursor, step_by_step_next, exit, status>>

set_update_per_second_max(rate) ==
    /\ update_per_second_max' = rate
    /\ UNCHANGED <<game_table, game_table_size, game_pause, game_table_user_cursor,
                   step_by_step_next, exit, status>>

\* self.update_per_second_max += update_per_second, on a u16
increase_update_per_second_max(update_per_second) ==
    IF update_per_second_max + update_per_second < U16Mod
    THEN set_update_per_second_max(update_per_second_max + update_per_second)
    ELSE \E checked \in OverflowChecks :
            IF checked THEN panic
            ELSE set_update_per_second_max(
                    (update_per_second_max + update_per_second) % U16Mod)

\* as decrease_update_per_second_max, the test being >= 0
decrease_update_per_second_max_to_zero(update_per_second) ==
    IF update_per_second_max >= update_per_second
    THEN set_update_per_second_max(update_per_second_max - update_per_second)
    ELSE set_update_per_second_max(update_per_second_max)

\* if self.update_per_second_max - update_per_second > 0 { ... -= ... }, on a u16
decrease_update_per_second_max(update_per_second) ==
    IF update_per_second_max >= update_per_second
    THEN IF update_per_second_max - update_per_second > 0
         THEN set_update_per_second_max(update_per_second_max - update_per_second)
         ELSE set_update_per_second_max(update_per_second_max)
    ELSE \E checked \in OverflowChecks :
            IF checked THEN panic
            ELSE set_update_per_second_max(
                    (update_per_second_max - update_per_second + U16Mod) % U16Mod)

\* as toggle_step_by_step, the request made without pausing
toggle_step_by_step_no_pause ==
    /\ step_by_step_next' = TRUE
    /\ UNCHANGED <<game_table, game_table_size, update_per_second_max, game_pause,
                   game_table_user_cursor, exit, status>>

toggle_step_by_step ==
    /\ step_by_step_next' = TRUE
    /\ game_pause' = TRUE
    /\ UNCHANGED <<game_table, game_table_size, update_per_second_max,
                   game_table_user_cursor, exit, status>>

reset_update_per_second_max ==
    set_update_per_second_max(DEFAULT_MAX_UPDATE_PER_SECOND)

\* as reset_game_table, the height taken for both dimensions
reset_game_table_square ==
    /\ game_table' = initialize_empty_game_table(<<game_table_size[1], game_table_size[1]>>)
    /\ UNCHANGED <<game_table_size, update_per_second_max, game_pause,
                   game_table_user_cursor, step_by_step_next, exit, status>>

\* as reset_game_table, the cursor sent back to the origin as well
reset_game_table_and_cursor ==
    /\ game_table' = initialize_empty_game_table(game_table_size)
    /\ game_table_user_cursor' = <<0, 0>>
    /\ UNCHANGED <<game_table_size, update_per_second_max, game_pause,
                   step_by_step_next, exit, status>>

reset_game_table ==
    /\ game_table' = initialize_empty_game_table(game_table_size)
    /\ UNCHANGED <<game_table_size, update_per_second_max, game_pause,
                   game_table_user_cursor, step_by_step_next, exit, status>>

\* the keys handle_key_event matches, "other" for the `_` arm, and "none":
\* poll found nothing, or the event was no key press
KeyCodes ==
    {"q", " ", "Left", "Right", "Up", "Down", "s", "a", "d", "r", "t", "n", "other"}

handle_key_event(code) ==
    CASE code = "q"     -> exit_
      [] code = " "     -> toggle_game_pause
      [] code = "Left"  -> game_table_user_cursor_move_left
      [] code = "Right" -> game_table_user_cursor_move_right
      [] code = "Up"    -> game_table_user_cursor_move_up
      [] code = "Down"  -> game_table_user_cursor_move_down
      [] code = "s"     -> switch_cell_state
      [] code = "a"     -> decrease_update_per_second_max(1)
      [] code = "d"     -> increase_update_per_second_max(1)
      [] code = "r"     -> reset_update_per_second_max
      [] code = "t"     -> toggle_step_by_step
      [] code = "n"     -> reset_game_table
      [] OTHER          -> UNCHANGED <<game_table, game_table_size, update_per_second_max,
                                       game_pause, game_table_user_cursor,
                                       step_by_step_next, exit, status>>

----------------------------------------------------------------------------
(* The run loop *)

Min(a, b) == IF a <= b THEN a ELSE b

\* Duration::from_secs_f64(1.0 / rate) in nanoseconds, for rate >= 1: the quotient
\* rounded to the nearest nanosecond, a tie to the even one
rate_interval(rate) ==
    LET q == NanosPerSec \div rate
        r == NanosPerSec % rate
    IN  IF 2 * r > rate THEN q + 1
        ELSE IF 2 * r = rate THEN q + (q % 2)
        ELSE q

\* as rate_gate_open, the comparison strict
rate_gate_open_strict(elapsed, rate) == elapsed > rate_interval(rate)

\* Instant::now() - last_update >= Duration::from_secs_f64(1.0 / rate)
rate_gate_open(elapsed, rate) == elapsed >= rate_interval(rate)

\* the readings of the clock the coarse specifications take: a second or more
CoarseTimes == {NanosPerSec}

\* the readings around the threshold of every rate in 1..top, and the two ends
FineTimes(top) ==
    {NanosPerSec} \cup {rate_interval(r) : r \in 1..top}
                     \cup {rate_interval(r) - 1 : r \in 1..top}

\* as advance_generation, a second generation made when two intervals have passed
advance_generation_catch_up ==
    /\ game_table' =
          IF since_update >= 2 * rate_interval(update_per_second_max)
          THEN update_game_table(update_game_table(game_table, game_table_size),
                                 game_table_size)
          ELSE update_game_table(game_table, game_table_size)
    /\ advances' =
          IF since_update >= 2 * rate_interval(update_per_second_max)
          THEN advances + 2 ELSE advances + 1
    /\ since_advance' = 0

\* self.game_table = self.update_game_table(self.game_table.clone())
advance_generation ==
    /\ game_table' = update_game_table(game_table, game_table_size)
    /\ advances' = advances + 1
    /\ since_advance' = 0

\* The clock moves on between two readings of Instant::now(): the time since
\* last_update goes to a later reading of `times`, the time since the last advance
\* by as much; once the former has saturated, the latter goes on alone.
Tick(times) ==
    /\ status = "running"
    /\ pc = "update"
    /\ \E reading \in times :
          IF since_update < NanosPerSec
          THEN /\ reading > since_update
               /\ since_update' = reading
               /\ since_advance' = Min(since_advance + (reading - since_update), NanosPerSec)
          ELSE /\ reading > since_advance
               /\ since_update' = since_update
               /\ since_advance' = reading
    /\ UNCHANGED <<game_table, game_table_size, update_per_second_max, game_pause,
                   game_table_user_cursor, step_by_step_next, exit, pc, status,
                   key_event, advances>>

\* the update phase came to its end without an advance
no_update ==
    /\ pc' = "draw"
    /\ key_event' = "none"
    /\ UNCHANGED <<game_table, step_by_step_next, status, since_update,
                   since_advance, advances>>

update_panic ==
    /\ status' = "panicked"
    /\ UNCHANGED <<game_table, step_by_step_next, pc, since_update,
                   since_advance, key_event, advances>>

\* lines 52-58, Running: the rate gate, the advance, last_update = Instant::now()
running_update ==
    IF update_per_second_max = 0
    THEN \* from_secs_f64(1.0 / 0.0) panics: the value is infinite
         update_panic
    ELSE IF rate_gate_open(since_update, update_per_second_max)
    THEN IF update_game_table_panics(game_table, game_table_size)
         THEN update_panic
         ELSE /\ advance_generation
              /\ since_update' = 0
              /\ pc' = "draw"
              /\ key_event' = "none"
              /\ UNCHANGED <<step_by_step_next, status>>
    ELSE no_update

\* as single_step, the request left standing
single_step_keeps_request ==
    IF update_game_table_panics(game_table, game_table_size)
    THEN update_panic
    ELSE /\ advance_generation
         /\ pc' = "draw"
         /\ key_event' = "none"
         /\ UNCHANGED <<status, since_update, step_by_step_next>>

\* as single_step, the step waiting for the rate gate
single_step_gated ==
    IF update_game_table_panics(game_table, game_table_size)
    THEN update_panic
    ELSE IF rate_gate_open(since_update, update_per_second_max)
    THEN /\ advance_generation
         /\ step_by_step_next' = FALSE
         /\ pc' = "draw"
         /\ key_event' = "none"
         /\ UNCHANGED <<status, since_update>>
    ELSE no_update

\* lines 59-62, Paused with a step requested: last_update is left as it is
single_step ==
    IF update_game_table_panics(game_table, game_table_size)
    THEN update_panic
    ELSE /\ advance_generation
         /\ step_by_step_next' = FALSE
         /\ pc' = "draw"
         /\ key_event' = "none"
         /\ UNCHANGED <<status, since_update>>

\* as LoopUpdate, the exit flag looked at in the Paused branch only
LoopUpdate_exit_when_paused ==
    /\ status = "running"
    /\ pc = "update"
    /\ UNCHANGED <<game_table_size, update_per_second_max, game_pause,
                   game_table_user_cursor, exit>>
    /\ IF ~game_pause THEN running_update
       ELSE IF exit
       THEN /\ status' = "returned"
            /\ UNCHANGED <<game_table, step_by_step_next, pc, since_update,
                           since_advance, key_event, advances>>
       ELSE IF step_by_step_next THEN single_step
       ELSE no_update

\* lines 50-62: the loop condition, then the update if one is due
LoopUpdate ==
    /\ status = "running"
    /\ pc = "update"
    /\ UNCHANGED <<game_table_size, update_per_second_max, game_pause,
                   game_table_user_cursor, exit>>
    /\ IF exit
       THEN /\ status' = "returned"
            /\ UNCHANGED <<game_table, step_by_step_next, pc, since_update,
                           since_advance, key_event, advances>>
       ELSE IF ~game_pause THEN running_update
       ELSE IF step_by_step_next THEN single_step
       ELSE no_update

\* lines 64-78: terminal.draw renders the grid as it is now
LoopDraw ==
    /\ status = "running"
    /\ pc = "draw"
    /\ pc' = "events"
    /\ advances' = 0
    /\ UNCHANGED <<game_table, game_table_size, update_per_second_max, game_pause,
                   game_table_user_cursor, step_by_step_next, exit, status,
                   since_update, since_advance, key_event>>

\* on an axis of dimension 0 the wrapped cursor runs over the whole of usize: the
\* arrow keys are pressed while it stays within CursorTop of 0 or of usize::MAX
CursorTop == MaxCells + 1

cursor_key_pressed(code) ==
    LET axis == IF code \in {"Up", "Down"} THEN 1 ELSE 2
        held == IF code \in {"Right", "Down"} THEN CursorTop ELSE UsizeMax - CursorTop
    IN  code \in {"Left", "Right", "Up", "Down"} /\ game_table_size[axis] = 0
            => game_table_user_cursor[axis] # held

\* line 80, handle_events: at most one event is read and dispatched.  `keys` are
\* the keys the user presses and `top` the rate above which <d> is not pressed.
LoopHandleEvents(keys, top) ==
    /\ status = "running"
    /\ pc = "events"
    /\ \E code \in keys \cup {"none"} :
          /\ code = "d" => update_per_second_max < top
          /\ cursor_key_pressed(code)
          /\ key_event' = code
          /\ IF code = "none"
             THEN UNCHANGED <<game_table, game_table_size, update_per_second_max,
                              game_pause, game_table_user_cursor, step_by_step_next,
                              exit, status>>
             ELSE handle_key_event(code)
    /\ pc' = "update"
    /\ UNCHANGED <<since_update, since_advance, advances>>

\* as LoopDrawFails, the error dropped and run returning Ok
LoopDrawFails_returns_ok ==
    /\ status = "running"
    /\ pc = "draw"
    /\ status' = "returned"
    /\ UNCHANGED <<game_table, game_table_size, update_per_second_max, game_pause,
                   game_table_user_cursor, step_by_step_next, exit, pc,
                   since_update, since_advance, key_event, advances>>

\* line 65, terminal.draw(..)?: the render fails and run returns its error
LoopDrawFails ==
    /\ status = "running"
    /\ pc = "draw"
    /\ status' = "draw_error"
    /\ UNCHANGED <<game_table, game_table_size, update_per_second_max, game_pause,
                   game_table_user_cursor, step_by_step_next, exit, pc,
                   since_update, since_advance, key_event, advances>>

\* as LoopHandleEventsFails, the error found after a <Space> was dispatched
LoopHandleEventsFails_after_dispatch ==
    /\ status = "running"
    /\ pc = "events"
    /\ status' = "input_error"
    /\ game_pause' = ~game_pause
    /\ UNCHANGED <<game_table, game_table_size, update_per_second_max,
                   game_table_user_cursor, step_by_step_next, exit, pc,
                   since_update, since_advance, key_event, advances>>

\* lines 80 and 134-135, event::poll(..)? and event::read()?: the poll or the read
\* fails before any key is dispatched, and run returns the error
LoopHandleEventsFails ==
    /\ status = "running"
    /\ pc = "events"
    /\ status' = "input_error"
    /\ UNCHANGED <<game_table, game_table_size, update_per_second_max, game_pause,
                   game_table_user_cursor, step_by_step_next, exit, pc,
                   since_update, since_advance, key_event, advances>>

\* lines 42-49 of run, on an App::default(): the terminal gives the size
InitSizes(sizes) ==
    /\ game_table_size \in sizes
    /\ game_table \in initialize_game_table(game_table_size)
    /\ update_per_second_max = DEFAULT_MAX_UPDATE_PER_SECOND
    /\ game_pause = FALSE
    /\ game_table_user_cursor = <<0, 0>>
    /\ step_by_step_next = FALSE
    /\ exit = FALSE
    /\ pc = "update"
    /\ status = "running"
    /\ since_update = 0
    /\ since_advance = 0
    /\ key_event = "none"
    /\ advances = 0

----------------------------------------------------------------------------
(* Spec: the loop with every key, on every grid of at most MaxCells cells, *)
(* the rate kept at or below DEFAULT + MaxRateUp, the clock read coarsely. *)

RateTop == DEFAULT_MAX_UPDATE_PER_SECOND + MaxRateUp

Init == InitSizes(Sizes(MaxCells))

Next ==
    \/ Tick(CoarseTimes)
    \/ LoopUpdate
    \/ LoopDraw
    \/ LoopHandleEvents(KeyCodes, RateTop)

Spec == Init /\ [][Next]_vars

----------------------------------------------------------------------------
(* SpecClock: the loop on a 1x1 grid with the pause, step and rate keys,   *)
(* the clock read around the threshold of every rate up to RateTop.        *)

ClockKeys == {" ", "t", "a", "d", "r"}

InitClock == InitSizes({<<1, 1>>})

NextClock ==
    \/ Tick(FineTimes(RateTop))
    \/ LoopUpdate
    \/ LoopDraw
    \/ LoopHandleEvents(ClockKeys, RateTop)

SpecClock == InitClock /\ [][NextClock]_vars

----------------------------------------------------------------------------
(* SpecRate: the loop on a 1x1 grid with the three rate keys, the rate     *)
(* free to take every value of a u16.                                      *)

RateKeys == {"a", "d", "r"}

InitRate == InitSizes({<<1, 1>>})

NextRate ==
    \/ Tick(CoarseTimes)
    \/ LoopUpdate
    \/ LoopDraw
    \/ LoopHandleEvents(RateKeys, U16Mod)

SpecRate == InitRate /\ [][NextRate]_vars

----------------------------------------------------------------------------
(* SpecRule: update_game_table as a function, applied to every grid of at  *)
(* most RuleMaxCells cells, up to RuleSteps times in a row.                *)

RuleSteps == 2

InitRule == InitSizes(Sizes(RuleMaxCells))

RuleApply ==
    /\ advances < RuleSteps
    /\ ~update_game_table_panics(game_table, game_table_size)
    /\ advance_generation
    /\ UNCHANGED <<game_table_size, update_per_second_max, game_pause,
                   game_table_user_cursor, step_by_step_next, exit, pc, status,
                   since_update, key_event>>

NextRule == RuleApply

SpecRule == InitRule /\ [][NextRule]_vars

----------------------------------------------------------------------------
(* SpecDegenerate: the loop of Spec on the grids of height 0 or width 0, a  *)
(* terminal of no rows or no columns.                                      *)

DegenerateSizes(maxDim) ==
    {s \in (0..maxDim) \X (0..maxDim) : s[1] = 0 \/ s[2] = 0}

InitDegenerate == InitSizes(DegenerateSizes(MaxCells))

SpecDegenerate == InitDegenerate /\ [][Next]_vars

----------------------------------------------------------------------------
(* SpecIO: the loop of Spec with a render and an input source that can     *)
(* fail, on the grids of at most IOMaxCells cells and on the grids of      *)
(* height 0 or width 0 up to IOMaxCells.                                   *)

IOMaxCells == 2

InitIO == InitSizes(Sizes(IOMaxCells) \cup DegenerateSizes(IOMaxCells))

NextIO ==
    \/ Next
    \/ LoopDrawFails
    \/ LoopHandleEventsFails

SpecIO == InitIO /\ [][NextIO]_vars

----------------------------------------------------------------------------
(* SpecBlinker: update_game_table applied, up to RuleSteps times in a row, *)
(* to the grids of 5 to BlinkerMaxDim rows and columns whose live cells    *)
(* are three in a row, at every place of the torus.                        *)

BlinkerMaxDim == 6

\* the grid of `size` whose live cells are (r, c-1), (r, c), (r, c+1), wrapped
HorizontalBlinker(size, r, c) ==
    [x \in 0..(size[1] - 1) |-> [y \in 0..(size[2] - 1) |->
        x = r /\ y \in {(c + size[2] - 1) % size[2], c, (c + 1) % size[2]}]]

\* the grid of `size` whose live cells are (r-1, c), (r, c), (r+1, c), wrapped
VerticalBlinker(size, r, c) ==
    [x \in 0..(size[1] - 1) |-> [y \in 0..(size[2] - 1) |->
        y = c /\ x \in {(r + size[1] - 1) % size[1], r, (r + 1) % size[1]}]]

BlinkerSizes == (5..BlinkerMaxDim) \X (5..BlinkerMaxDim)

\* the horizontal blinkers of `size`, one for each centre
HorizontalBlinkers(size) ==
    {HorizontalBlinker(size, r, c) : r \in 0..(size[1] - 1), c \in 0..(size[2] - 1)}

InitBlinker ==
    /\ game_table_size \in BlinkerSizes
    /\ game_table \in HorizontalBlinkers(game_table_size)
    /\ update_per_second_max = DEFAULT_MAX_UPDATE_PER_SECOND
    /\ game_pause = FALSE
    /\ game_table_user_cursor = <<0, 0>>
    /\ step_by_step_next = FALSE
    /\ exit = FALSE
    /\ pc = "update"
    /\ status = "running"
    /\ since_update = 0
    /\ since_advance = 0
    /\ key_event = "none"
    /\ advances = 0

SpecBlinker == InitBlinker /\ [][NextRule]_vars

----------------------------------------------------------------------------
(* C1 *)

\* 1 when the cell at row r + dr, column c + dc of the torus is live, else 0
RefLive(table, h, w, r, c, dr, dc) ==
    IF table[(r + dr) % h][(c + dc) % w] THEN 1 ELSE 0

RefCount(table, h, w, r, c) ==
      RefLive(table, h, w, r, c, -1, -1) + RefLive(table, h, w, r, c, -1, 0)
    + RefLive(table, h, w, r, c, -1, 1)  + RefLive(table, h, w, r, c, 0, -1)
    + RefLive(table, h, w, r, c, 0, 1)   + RefLive(table, h, w, r, c, 1, -1)
    + RefLive(table, h, w, r, c, 1, 0)   + RefLive(table, h, w, r, c, 1, 1)

RefNextGeneration(table, h, w) ==
    [r \in 0..(h - 1) |-> [c \in 0..(w - 1) |->
        LET n == RefCount(table, h, w, r, c)
        IN  \/ (table[r][c] /\ (n = 2 \/ n = 3))
            \/ (~table[r][c] /\ n = 3)]]

OnlyOriginLive == [r \in 0..2 |-> [c \in 0..2 |-> r = 0 /\ c = 0]]

\* C1: on every grid with height >= 1 and width >= 1, update_game_table returns
\* the grid of the synchronous rule on the torus, every neighbour count (over the 8
\* offsets, wrapped modulo height and width) read from the input grid; on the 3x3
\* grid whose only live cell is (0,0), cell (2,2) counts 1 neighbour.
C1_RuleIsReference ==
    /\ [][game_table' =
            RefNextGeneration(game_table, game_table_size[1], game_table_size[2])]_vars
    /\ [](\A x \in DOMAIN game_table : \A y \in DOMAIN game_table[x] :
            count_number_of_neighbour(game_table, game_table_size, x, y)
                = RefCount(game_table, game_table_size[1], game_table_size[2], x, y))
    /\ [](game_table = OnlyOriginLive =>
            count_number_of_neighbour(game_table, game_table_size, 2, 2) = 1)

\* a 3x3 grid that update_game_table returned, with a cell born at (2,2), whose
\* neighbours lie across both edges: the wrapped count decided it
C1_Witness ==
    /\ advances = 1
    /\ game_table_size = <<3, 3>>
    /\ game_table[2][2]
    /\ ~game_table[1][1]
    /\ game_table[0][0]

----------------------------------------------------------------------------
(* Steps of the loop, as the claims name them *)

\* handle_events read `code` and dispatched it
Dispatch(code) == pc = "events" /\ pc' = "update" /\ key_event' = code

\* the update phase of an iteration ran to its end
UpdatePhase == pc = "update" /\ pc' = "draw"

Height == game_table_size[1]

Width == game_table_size[2]

----------------------------------------------------------------------------
(* C2 *)

Shape ==
    /\ DOMAIN game_table = 0..(Height - 1)
    /\ \A x \in DOMAIN game_table : DOMAIN game_table[x] = 0..(Width - 1)

\* C2: once run has initialised the grid, whatever the loop and the commands do,
\* the grid has exactly height rows of exactly width cells, and (height, width)
\* never change; so update_game_table returns a grid of its input's dimensions.
C2_DimensionsFixed ==
    /\ [](Shape)
    /\ [][game_table_size' = game_table_size]_vars

\* a 1x3 grid that a generation advance has just replaced, after a reset
C2_Witness ==
    /\ game_table_size = <<1, 3>>
    /\ pc = "draw"
    /\ advances = 1
    /\ game_pause
    /\ game_table = initialize_empty_game_table(<<1, 3>>)

----------------------------------------------------------------------------
(* C4 *)

CursorRow == game_table_user_cursor[1]

CursorCol == game_table_user_cursor[2]

CursorInBounds ==
    /\ CursorRow \in 0..(Height - 1)
    /\ CursorCol \in 0..(Width - 1)

\* C4: on a grid with height >= 1 and width >= 1 the cursor is always inside the
\* grid, in Running and in Paused mode; a move changes one axis by one step and
\* wraps at the edge (Left from column 0 gives width-1, Right from width-1 gives 0,
\* Up from row 0 gives height-1, Down from height-1 gives 0), the other axis kept.
C4_CursorWraps ==
    /\ [](CursorInBounds)
    /\ [][/\ Dispatch("Left") => game_table_user_cursor' =
                <<CursorRow, IF CursorCol = 0 THEN Width - 1 ELSE CursorCol - 1>>
          /\ Dispatch("Right") => game_table_user_cursor' =
                <<CursorRow, IF CursorCol = Width - 1 THEN 0 ELSE CursorCol + 1>>
          /\ Dispatch("Up") => game_table_user_cursor' =
                <<IF CursorRow = 0 THEN Height - 1 ELSE CursorRow - 1, CursorCol>>
          /\ Dispatch("Down") => game_table_user_cursor' =
                <<IF CursorRow = Height - 1 THEN 0 ELSE CursorRow + 1, CursorCol>>]_vars

\* Up has just wrapped from row 0 to the last row of a grid higher than wide, Paused
C4_Witness ==
    /\ key_event = "Up"
    /\ Height > Width
    /\ CursorRow = Height - 1
    /\ CursorRow >= 2
    /\ game_pause

----------------------------------------------------------------------------
(* C5 *)

\* C5: ToggleCellAtCursor while Running leaves every cell as it is; while Paused
\* it negates the cell at the cursor and leaves every other cell, the cursor, the
\* rate, the paused flag and the pending-step flag as they are.
C5_ToggleGatedByPause ==
    [][Dispatch("s") =>
        /\ DOMAIN game_table' = DOMAIN game_table
        /\ \A x \in DOMAIN game_table :
              /\ DOMAIN game_table'[x] = DOMAIN game_table[x]
              /\ \A y \in DOMAIN game_table[x] :
                    game_table'[x][y] =
                        IF game_pause /\ x = CursorRow /\ y = CursorCol
                        THEN ~game_table[x][y]
                        ELSE game_table[x][y]
        /\ UNCHANGED <<game_table_user_cursor, update_per_second_max, game_pause,
                       step_by_step_next>>]_vars

\* a toggle has just been dispatched while Paused, away from the origin, and the
\* cell at the cursor is now the only live one of four
C5_Witness ==
    /\ key_event = "s"
    /\ game_pause
    /\ game_table_size = <<2, 2>>
    /\ game_table_user_cursor = <<1, 1>>
    /\ game_table[1][1]
    /\ ~game_table[0][0] /\ ~game_table[0][1] /\ ~game_table[1][0]

----------------------------------------------------------------------------
(* C6 *)

\* the most recent generation advance was a single step made while Paused: a
\* Running-mode advance zeroes both times, a single step only since_advance
AfterSingleStep == since_advance < since_update

\* what C6 says of the request and of the step itself
SingleStepAdvancesOnce ==
    /\ Dispatch("t") /\ game_pause =>
          /\ step_by_step_next'
          /\ game_pause'
          /\ game_table' = game_table
    /\ UpdatePhase /\ game_pause /\ step_by_step_next =>
          /\ game_table' = update_game_table(game_table, game_table_size)
          /\ advances' = advances + 1
          /\ ~step_by_step_next'
          /\ game_pause'

\* C6: while Paused, a step request makes the next iteration advance exactly one
\* generation, clear the flag and stay Paused; in every later iteration of the
\* Paused clock with no step request pending, the update phase, the passing of
\* time and the draw leave the grid as it is, and of the commands only a cell
\* toggle or a grid reset changes it.
C6_SingleStep ==
    [][/\ SingleStepAdvancesOnce
       /\ UpdatePhase /\ game_pause /\ ~step_by_step_next => game_table' = game_table
       /\ pc = "update" /\ pc' = "update" => game_table' = game_table
       /\ pc = "draw" => game_table' = game_table
       /\ pc = "events" /\ key_event' \notin {"s", "n"} => game_table' = game_table]_vars

\* a single step has just been made, a second or more after the last Running-mode
\* advance: one generation, the flag cleared, still Paused, a cell live
C6_Witness ==
    /\ pc = "draw"
    /\ advances = 1
    /\ game_pause
    /\ ~step_by_step_next
    /\ AfterSingleStep
    /\ \E x \in DOMAIN game_table : \E y \in DOMAIN game_table[x] : game_table[x][y]

----------------------------------------------------------------------------
(* C8 *)

Toggled(table, x, y) == [table EXCEPT ![x][y] = ~table[x][y]]

\* C8: an iteration runs maybe-advance, then render, then poll-and-dispatch of at
\* most one command; it advances the grid by at most one generation however much
\* time has passed; so between two renders the grid changes by at most one command
\* effect and one application of update_game_table, and the grid rendered is a
\* whole generation.
C8_OneAdvancePerIteration ==
    /\ [](advances <= 1)
    /\ [](pc = "draw" => Shape)
    /\ [][/\ pc = "update" => pc' \in {"update", "draw"}
          /\ pc = "draw" => pc' = "events" /\ game_table' = game_table
          /\ pc = "events" =>
                /\ pc' = "update"
                /\ advances' = advances
                /\ game_table' \in
                      {game_table,
                       Toggled(game_table, CursorRow, CursorCol),
                       initialize_empty_game_table(game_table_size)}
          /\ pc = "update" /\ game_table' # game_table =>
                /\ UpdatePhase
                /\ advances' = 1
                /\ game_table' = update_game_table(game_table, game_table_size)]_vars

\* about to render a generation made in Running mode after a delay of a second, ten
\* intervals of the default rate: one advance, and a cell live
C8_Witness ==
    /\ pc = "draw"
    /\ advances = 1
    /\ ~game_pause
    /\ update_per_second_max = DEFAULT_MAX_UPDATE_PER_SECOND
    /\ since_update = 0
    /\ game_table_size = <<2, 2>>
    /\ game_table[0][0]

----------------------------------------------------------------------------
(* C9 *)

\* C9: TogglePause turns Running into Paused and Paused into Running and changes
\* neither the grid, the cursor, the rate nor the pending-step flag; no step of the
\* loop other than the dispatch of TogglePause or of RequestSingleStep changes the
\* mode, so two TogglePause commands with no command between them give back the
\* mode there was before the first.
C9_PauseToggles ==
    [][/\ Dispatch(" ") =>
            /\ game_pause' = ~game_pause
            /\ UNCHANGED <<game_table, game_table_user_cursor, update_per_second_max,
                           step_by_step_next>>
       /\ game_pause' # game_pause => Dispatch(" ") \/ Dispatch("t")]_vars

\* TogglePause has just resumed Running: the program starts Running, so the mode
\* was Paused before this command
C9_Witness ==
    /\ key_event = " "
    /\ pc = "update"
    /\ ~game_pause

----------------------------------------------------------------------------
(* C10 *)

\* C10: DecreaseRate at rate 1 changes nothing, at a rate r > 1 it gives r - 1;
\* ResetRate gives the default, 10; DecreaseRate, IncreaseRate and ResetRate
\* change neither the grid, the cursor, the paused flag nor the pending-step flag.
C10_RateCommands ==
    [][/\ Dispatch("a") /\ update_per_second_max = 1 => update_per_second_max' = 1
       /\ Dispatch("a") /\ update_per_second_max > 1 =>
            update_per_second_max' = update_per_second_max - 1
       /\ Dispatch("r") => update_per_second_max' = 10
       /\ Dispatch("a") \/ Dispatch("d") \/ Dispatch("r") =>
            UNCHANGED <<game_table, game_table_user_cursor, game_pause,
                        step_by_step_next>>]_vars

\* DecreaseRate has just been dispatched and the rate is at its floor
C10_Witness ==
    /\ key_event = "a"
    /\ update_per_second_max = 1
    /\ pc = "update"

----------------------------------------------------------------------------
(* C3 *)

\* C3: once run has set the default rate, under any sequence of DecreaseRate,
\* IncreaseRate and ResetRate commands, of any length, update_per_second_max is at
\* least 1: it is never 0.
C3_RateAtLeastOne == update_per_second_max >= 1

----------------------------------------------------------------------------
(* C7 *)

\* 1/rate seconds as a Duration holds it: the whole number of nanoseconds nearest
\* to it, the even one of two
NearestInterval(rate) ==
    LET q == NanosPerSec \div rate
        Distance(n) == IF n * rate >= NanosPerSec
                       THEN n * rate - NanosPerSec ELSE NanosPerSec - n * rate
    IN  CHOOSE n \in {q, q + 1} :
            \/ 2 * Distance(n) < rate
            \/ 2 * Distance(n) = rate /\ n % 2 = 0

Advanced == advances' = advances + 1

----------------------------------------------------------------------------
(* C11 *)

\* C11: on a wrapping grid of at least 5x5 whose only live cells are (r,c-1),
\* (r,c), (r,c+1), one generation advance gives exactly (r-1,c), (r,c), (r+1,c),
\* and two give the first grid again, for every centre (r,c), the ones whose
\* pattern lies across an edge included.
C11_BlinkerOscillates ==
    /\ [](\A r \in 0..(Height - 1) : \A c \in 0..(Width - 1) :
            update_game_table(
                update_game_table(HorizontalBlinker(game_table_size, r, c),
                                  game_table_size),
                game_table_size) = HorizontalBlinker(game_table_size, r, c))
    /\ [][\A r \in 0..(Height - 1) : \A c \in 0..(Width - 1) :
            /\ game_table = HorizontalBlinker(game_table_size, r, c) =>
                    game_table' = VerticalBlinker(game_table_size, r, c)
            /\ game_table = VerticalBlinker(game_table_size, r, c) =>
                    game_table' = HorizontalBlinker(game_table_size, r, c)]_vars

\* one advance has turned the blinker centred on (0,0) of a 5x5 grid, which lies
\* across the left edge, into the vertical one, which lies across the top edge
C11_Witness ==
    /\ advances = 1
    /\ game_table_size = <<5, 5>>
    /\ game_table[4][0] /\ game_table[0][0] /\ game_table[1][0]
    /\ ~game_table[0][4] /\ ~game_table[0][1]

----------------------------------------------------------------------------
(* C12 *)

NoLiveCell(table) == \A x \in DOMAIN table : \A y \in DOMAIN table[x] : ~table[x][y]

ShapeOf(table, size) ==
    /\ DOMAIN table = 0..(size[1] - 1)
    /\ \A x \in DOMAIN table : DOMAIN table[x] = 0..(size[2] - 1)

Degenerate == Height = 0 \/ Width = 0

\* C12: for height = 0 or width = 0 (either or both) update_game_table ends
\* without a modulo by zero or an index out of range and gives a grid of the
\* same dimensions with no live cell, so that the update phase of a Running
\* iteration on such a grid goes on to the render, the program still running.
C12_DegenerateAdvanceTotal ==
    /\ [](Degenerate =>
            /\ ~update_game_table_panics(game_table, game_table_size)
            /\ ShapeOf(update_game_table(game_table, game_table_size),
                       game_table_size)
            /\ NoLiveCell(update_game_table(game_table, game_table_size)))
    /\ [][Degenerate /\ pc = "update" /\ ~exit /\ ~game_pause
            /\ update_per_second_max >= 1
            /\ (pc' # pc \/ status' # status)
          => /\ pc' = "draw"
             /\ status' = "running"
             /\ rate_gate_open(since_update, update_per_second_max)
                    => advances' = advances + 1
             /\ ShapeOf(game_table', game_table_size)
             /\ NoLiveCell(game_table')]_vars

\* a Running iteration has advanced a grid of two rows and no column
C12_Witness ==
    /\ game_table_size = <<2, 0>>
    /\ pc = "draw"
    /\ advances = 1
    /\ ~game_pause
    /\ status = "running"

----------------------------------------------------------------------------
(* C13 *)

\* C13: when the viewport gives height = 0 or width = 0, every command, in any
\* order, ends without a fault: no underflow of dimension - 1, no modulo by
\* zero and no cell access out of range is reachable, so the program never
\* panics.  (Violated: an arrow key on the axis of dimension 0 computes 0 - 1,
\* and <s> while Paused indexes a grid that has no cell.)
C13_NoFaultOnDegenerateGrid == Degenerate => status # "panicked"

----------------------------------------------------------------------------
(* C14 *)

Terminated == status # "running"

\* C14: as the claim states it: with the render and the input allowed to fail,
\* the loop is in its terminated state only if a Quit command has been
\* processed.  (Violated: a failed render or poll ends the loop without Quit.)
C14_Original == Terminated => exit

\* C14, amended: run returns Ok only after a Quit command has been processed,
\* and exit is set by <q> alone; the loop ends in no other way than that
\* return (found at the top of an iteration), the error of a failed render
\* (found in the render), the error of a failed poll or read (found in the
\* input step), or a panic.
C14_TerminationPaths ==
    /\ [](status = "returned" => exit /\ key_event = "q")
    /\ [][exit' # exit => Dispatch("q") /\ exit']_vars
    /\ [][status' # status =>
            /\ status = "running"
            /\ CASE status' = "returned" -> exit /\ pc = "update"
                 [] status' = "draw_error" -> pc = "draw"
                 [] status' = "input_error" -> pc = "events"
                 [] OTHER -> status' = "panicked"]_vars

\* the render has failed and ended the loop, no Quit processed
C14_Witness == status = "draw_error" /\ ~exit /\ pc = "draw"

----------------------------------------------------------------------------
(* C15 *)

AppFields ==
    <<game_table, game_table_size, update_per_second_max, game_pause,
      game_table_user_cursor, step_by_step_next>>

\* C15: a dispatched Quit sets exit and nothing else, in Running and in
\* Paused mode; from then on the loop is at the top of the next iteration,
\* where it can only return: no advance, no render, no poll and no failure of
\* either happens, grid, cursor, rate, pause flag and step flag keep the
\* values they had when Quit was processed (a step still pending would not be
\* executed), and nothing happens after the return.
C15_QuitEndsTheLoop ==
    /\ [][Dispatch("q") => exit' /\ status' = "running" /\ UNCHANGED AppFields]_vars
    /\ [](exit => pc = "update" /\ status \in {"running", "returned"})
    /\ [][exit => /\ UNCHANGED <<AppFields, exit, pc, key_event, advances>>
                  /\ status' \in {status, "returned"}]_vars
    /\ [][status # "returned"]_vars

\* run has returned after a Quit processed in Paused mode
C15_Witness == status = "returned" /\ game_pause /\ key_event = "q"

----------------------------------------------------------------------------
(* C16 *)

\* C16: a failed render ends the loop in the render of that iteration with the
\* render's error, no input polled and no command applied; a failed poll or
\* read ends it in the input step with that error, no command applied; after
\* either no further step (advance, render, poll) is taken.
C16_FailurePropagates ==
    /\ [][pc = "draw" /\ status' # "running"
            => status' = "draw_error" /\ UNCHANGED <<AppFields, exit, pc, key_event>>]_vars
    /\ [][pc = "events" /\ status' \notin {"running", "panicked"}
            => status' = "input_error" /\ UNCHANGED <<AppFields, exit, pc, key_event>>]_vars
    /\ [][status \notin {"draw_error", "input_error"}]_vars
    /\ [](status = "draw_error" => pc = "draw")
    /\ [](status = "input_error" => pc = "events")

\* the poll or the read has failed and ended the loop in the input step
C16_Witness == status = "input_error" /\ pc = "events" /\ ~exit

----------------------------------------------------------------------------
(* C17 *)

\* C17: in every reachable state step_by_step_next implies game_pause; a
\* request is pending only between the dispatch of <t> and the update phase of
\* the next iteration, which consumes it with one advance, so that no request
\* is left when a later key can switch to Running.
C17_StepOnlyWhilePaused ==
    /\ [](step_by_step_next => game_pause)
    /\ [](step_by_step_next => pc = "update" /\ key_event = "t")
    /\ [][step_by_step_next /\ pc' # pc
            => UpdatePhase /\ ~step_by_step_next' /\ Advanced /\ game_pause']_vars
    /\ [][~game_pause' => ~step_by_step_next']_vars

\* a step has been requested and waits for the next iteration, the clock Paused
C17_Witness ==
    /\ step_by_step_next
    /\ game_pause
    /\ key_event = "t"
    /\ pc = "update"

----------------------------------------------------------------------------
(* C18 *)

\* C18: <t> dispatched while Running pauses and sets the request; the update
\* phase of the next iteration then advances exactly one generation whether
\* the rate gate is open or not, clears the request and leaves last_update;
\* game_pause goes back to false only on a dispatched <Space>.
C18_StepFromRunning ==
    /\ [][Dispatch("t") /\ ~game_pause
            => game_pause' /\ step_by_step_next' /\ game_table' = game_table]_vars
    /\ [][step_by_step_next /\ pc = "update" /\ pc' # pc
          => /\ game_table' = update_game_table(game_table, game_table_size)
             /\ advances' = advances + 1
             /\ ~step_by_step_next'
             /\ game_pause'
             /\ since_update' = since_update]_vars
    /\ [][game_pause /\ ~game_pause' => Dispatch(" ")]_vars

\* the step asked for while Running has advanced the grid with the rate gate
\* closed (no time has passed since last_update), and the clock is Paused
C18_Witness ==
    /\ pc = "draw"
    /\ advances = 1
    /\ game_pause
    /\ ~step_by_step_next
    /\ since_update = 0
    /\ ~rate_gate_open(since_update, update_per_second_max)

----------------------------------------------------------------------------
(* C19 *)

\* C19: the grid changes only in an advance, in a dispatched <s> while Paused
\* or in a dispatched <n>; <n> sets every cell to false in Running and in
\* Paused mode and leaves dimensions, cursor, rate, pause flag and step flag;
\* every other key, <t> included, and no key leave every cell as it is, and so
\* does the update phase of a Paused iteration with no step pending.
C19_GridFrame ==
    /\ [][game_table' # game_table
            => \/ UpdatePhase /\ Advanced
               \/ Dispatch("s") /\ game_pause
               \/ Dispatch("n")]_vars
    /\ [][Dispatch("n")
            => /\ ShapeOf(game_table', game_table_size)
               /\ NoLiveCell(game_table')
               /\ UNCHANGED <<game_table_size, game_table_user_cursor,
                              update_per_second_max, game_pause,
                              step_by_step_next, exit>>]_vars
    /\ [][pc = "update" /\ game_pause /\ ~step_by_step_next
            => game_table' = game_table]_vars

\* <n> has emptied the grid in Running mode, the cursor away from the origin
C19_Witness ==
    /\ key_event = "n"
    /\ pc = "update"
    /\ ~game_pause
    /\ game_table_user_cursor # <<0, 0>>
    /\ NoLiveCell(game_table)
    /\ update_per_second_max # DEFAULT_MAX_UPDATE_PER_SECOND

----------------------------------------------------------------------------
(* C20 *)

\* C20: from every rate r in 1..65535, the values the u16 can hold, a
\* dispatched <d> leaves the rate at r + 1 and ends without a fault.
\* (Violated at r = 65535: r + 1 is no u16, the addition panics or wraps to 0.)
C20_IncreaseAddsOne ==
    [][Dispatch("d") /\ update_per_second_max \in 1..(U16Mod - 1)
        => /\ update_per_second_max' = update_per_second_max + 1
           /\ status' = "running"]_vars

====
